---------------------------- MODULE Spec2Model ----------------------------
(***************************************************************************)
(* A model of the tree constructor of saba_core                            *)
(* (src/saba_core/src/renderer/html/parser.rs).                            *)
(*                                                                         *)
(* HtmlParser::construct_tree is a loop that dispatches on                 *)
(* (insertion mode, current token).  One action of the model is one        *)
(* iteration of that loop in one insertion mode, including every call it   *)
(* makes (insert_element, insert_char, pop_until, pop_current_node).       *)
(* Nodes are Rc<RefCell<Node>> cells in the source; here a node is         *)
(* identified by its index in the sequence `nodes`, and a link that is     *)
(* None in the source is the index 0.                                      *)
(***************************************************************************)
EXTENDS Integers, Sequences, FiniteSets, TLC

(***************************************************************************)
(* Bounds of the model.                                                    *)
(***************************************************************************)
\* Number of tokens the token source delivers after its fixed opening.
MaxTokens == 2

\* Length of the text that follows the scheme in the arguments of Url::new.
MaxUrlLen == 4

\* Length of the arguments of HttpResponse::new.
MaxHttpLen == 5

(***************************************************************************)
(* Tokens (HtmlToken as matched by construct_tree).                        *)
(***************************************************************************)
NoneLink == 0

NoToken == [type |-> "None"]

EofToken == [type |-> "Eof"]

CharToken(c) == [type |-> "Char", c |-> c]

StartTag(tag, attributes) ==
    [type |-> "StartTag", tag |-> tag, attributes |-> attributes]

EndTag(tag) == [type |-> "EndTag", tag |-> tag]

Attribute(name, value) == [name |-> name, value |-> value]

\* The characters the input is drawn from: one letter and the two characters
\* the parser treats as white space.
Chars == {"x", " ", "\n"}

\* Mutant of IsSpace: the newline is forgotten.
IsSpace_NoNewline(c) == c = " "

\* c == ' ' || c == '\n'
IsSpace(c) == c = " " \/ c = "\n"

\* The tag names the input is drawn from; "div" stands for every tag name
\* that has no ElementKind.
Tags == {"html", "head", "body", "style", "script", "p", "h1", "a", "div"}

AttrFoo == <<Attribute("foo", "bar")>>

AttrTwo == <<Attribute("id", "x"), Attribute("foo", "bar")>>

StartTags ==
    {StartTag(tg, <<>>) : tg \in Tags}
        \cup {StartTag("a", AttrFoo), StartTag("a", AttrTwo),
              StartTag("html", AttrFoo)}

Alphabet ==
    {CharToken(c) : c \in Chars} \cup StartTags \cup {EndTag(tg) : tg \in Tags}

\* Fixed openings of the inputs: each input is one of these followed by at
\* most MaxTokens tokens of Alphabet and the end of the input.
\* <html><head></head><body></body></html>
MinimalDocument ==
    <<StartTag("html", <<>>), StartTag("head", <<>>), EndTag("head"),
      StartTag("body", <<>>), EndTag("body"), EndTag("html")>>

Preambles ==
    { <<>>,
      MinimalDocument,
      SubSeq(MinimalDocument, 1, 4),
      <<StartTag("body", <<>>), StartTag("p", <<>>)>>,
      <<StartTag("body", <<>>), StartTag("p", <<>>), StartTag("a", AttrFoo)>>,
      <<StartTag("body", <<>>), StartTag("p", <<>>), CharToken("x")>>,
      <<StartTag("body", <<>>), CharToken("\n"), CharToken("x")>>,
      <<StartTag("body", <<>>), StartTag("h2", <<>>), EndTag("h2")>>,
      <<StartTag("body", <<>>), StartTag("p", <<>>), EndTag("p"),
        StartTag("a", <<>>), EndTag("a")>>,
      <<StartTag("html", <<>>), StartTag("head", <<>>),
        StartTag("style", <<>>)>>,
      <<StartTag("head", <<>>), StartTag("script", <<>>), CharToken("x")>>,
      <<StartTag("body", <<>>), EndTag("body")>>,
      <<StartTag("body", <<>>), EndTag("html")>> }

VARIABLES
    mode,                     \* HtmlParser.mode
    original_insertion_mode,  \* HtmlParser.original_insertion_mode
    stack_of_open_elements,   \* HtmlParser.stack_of_open_elements
    nodes,                    \* the nodes allocated so far; nodes[1] is the Document
    token,                    \* the local `token` of construct_tree
    t,                        \* HtmlParser.t, the token source
    pc,                       \* "start", "loop", "returned" or "panicked"
    run,                      \* history: the current run of Char dispatches in InBody
    url,                      \* a call of Url::new: its argument and its result
    http                      \* a call of HttpResponse::new: its argument and its result

vars ==
    <<mode, original_insertion_mode, stack_of_open_elements, nodes, token, t,
      pc, run, url, http>>

\* No call is made.
NoCall == [input |-> <<>>, result |-> [status |-> "none"]]

(***************************************************************************)
(* Nodes (renderer/dom/node.rs is used through its constructor, its link   *)
(* setters and element_kind()).                                            *)
(***************************************************************************)
\* Node::new(kind): a node with every link None.
NewNode(kind, tag, attributes, text) ==
    [kind |-> kind, tag |-> tag, attributes |-> attributes, text |-> text,
     parent |-> NoneLink, first_child |-> NoneLink, last_child |-> NoneLink,
     next_sibling |-> NoneLink, previous_sibling |-> NoneLink]

DocumentNode == NewNode("Document", "", <<>>, <<>>)

\* window.document(): the Document is the first node allocated.
Document == 1

\* Mutant of create_element_node: the attribute list is not passed on.
create_element_node_NoAttributes(tag, attributes) ==
    NewNode("Element", tag, <<>>, <<>>)

create_element_node(tag, attributes) ==
    NewNode("Element", tag, attributes, <<>>)

create_char_node(c) == NewNode("Text", "", <<>>, <<c>>)

\* ElementKind::from_str: the kind of a tag name, "Err" for a tag name that
\* has no ElementKind.
ElementKindFromStr(tag) ==
    CASE tag = "html" -> "Html"
      [] tag = "head" -> "Head"
      [] tag = "style" -> "Style"
      [] tag = "script" -> "Script"
      [] tag = "body" -> "Body"
      [] tag = "p" -> "P"
      [] tag = "h1" -> "H1"
      [] tag = "h2" -> "H2"
      [] tag = "a" -> "A"
      [] OTHER -> "Err"

\* Node::element_kind(): "None" for the Document, for a Text node and for an
\* element whose tag has no ElementKind.
element_kind(n) ==
    IF n.kind = "Element" /\ ElementKindFromStr(n.tag) # "Err"
    THEN ElementKindFromStr(n.tag)
    ELSE "None"

Last(s) == s[Len(s)]

Front(s) == SubSeq(s, 1, Len(s) - 1)

\* Mutant of CurrentOrDocument: the stack is not consulted.
CurrentOrDocument_Root(st) == Document

\* `current` of insert_element: the top of the stack, or the Document.
CurrentOrDocument(st) == IF st = <<>> THEN Document ELSE Last(st)

\* The loop of insert_element: follow next_sibling from `n` to the node whose
\* next_sibling is None.  The result is the sequence of the nodes visited
\* (each is borrowed mutably as it is visited); `fuel` stops the walk of a
\* chain that never ends.
RECURSIVE SiblingWalk(_, _, _)
SiblingWalk(ns, n, fuel) ==
    IF ns[n].next_sibling = NoneLink \/ fuel = 0
    THEN <<n>>
    ELSE <<n>> \o SiblingWalk(ns, ns[n].next_sibling, fuel - 1)

\* x is one of the nodes of the walk s.
InSeq(x, s) == \E i \in 1..Len(s) : s[i] = x

\* Mutant of insert_element: the new node is always linked as the first
\* child, also when `current` has children.
insert_element_AsFirstChild(ns, st, tag, attributes) ==
    LET current == IF st = <<>> THEN Document ELSE Last(st)
        node == Len(ns) + 1
        created == Append(ns, create_element_node(tag, attributes))
    IN  [nodes |-> [created EXCEPT ![current].first_child = node,
                                   ![current].last_child = node,
                                   ![node].parent = current],
         stack |-> Append(st, node),
         panic |-> FALSE]

\* Mutant of insert_element: the first child of `current` is set to
\* `current` itself.
insert_element_SelfFirstChild(ns, st, tag, attributes) ==
    LET current == CurrentOrDocument(st)
        node == Len(ns) + 1
        created == Append(ns, create_element_node(tag, attributes))
        first == ns[current].first_child
        walk == SiblingWalk(ns, first, Len(ns))
        last_sibling == Last(walk)
        linked ==
            IF first # NoneLink
            THEN [created EXCEPT ![last_sibling].next_sibling = node,
                                 ![node].previous_sibling = first]
            ELSE [created EXCEPT ![current].first_child = current]
    IN  IF first # NoneLink /\ InSeq(current, walk)
        THEN [nodes |-> created, stack |-> st, panic |-> TRUE]
        ELSE [nodes |-> [linked EXCEPT ![current].last_child = node,
                                       ![node].parent = current],
              stack |-> Append(st, node),
              panic |-> FALSE]

\* Mutant of insert_element: the parent link of the new node is not set.
insert_element_NoParent(ns, st, tag, attributes) ==
    LET current == CurrentOrDocument(st)
        node == Len(ns) + 1
        created == Append(ns, create_element_node(tag, attributes))
        first == ns[current].first_child
        walk == SiblingWalk(ns, first, Len(ns))
        last_sibling == Last(walk)
        linked ==
            IF first # NoneLink
            THEN [created EXCEPT ![last_sibling].next_sibling = node,
                                 ![node].previous_sibling = first]
            ELSE [created EXCEPT ![current].first_child = node]
    IN  IF first # NoneLink /\ InSeq(current, walk)
        THEN [nodes |-> created, stack |-> st, panic |-> TRUE]
        ELSE [nodes |-> [linked EXCEPT ![current].last_child = node],
              stack |-> Append(st, node),
              panic |-> FALSE]

\* HtmlParser::insert_element.  `panic` is the BorrowMutError of borrowing
\* `current` again while current_borrowed is alive.
insert_element(ns, st, tag, attributes) ==
    LET current == CurrentOrDocument(st)
        node == Len(ns) + 1
        created == Append(ns, create_element_node(tag, attributes))
        first == ns[current].first_child
        walk == SiblingWalk(ns, first, Len(ns))
        last_sibling == Last(walk)
        linked ==
            IF first # NoneLink
            THEN [created EXCEPT ![last_sibling].next_sibling = node,
                                 ![node].previous_sibling = first]
            ELSE [created EXCEPT ![current].first_child = node]
    IN  IF first # NoneLink /\ InSeq(current, walk)
        THEN [nodes |-> created, stack |-> st, panic |-> TRUE]
        ELSE [nodes |-> [linked EXCEPT ![current].last_child = node,
                                       ![node].parent = current],
              stack |-> Append(st, node),
              panic |-> FALSE]

\* Mutant of pop_current_node: the kind of the top is not compared.
pop_current_node_AnyKind(ns, st, kind) ==
    IF st # <<>>
    THEN [stack |-> Front(st), popped |-> TRUE]
    ELSE [stack |-> st, popped |-> FALSE]

\* HtmlParser::pop_current_node.
pop_current_node(ns, st, kind) ==
    IF st # <<>> /\ element_kind(ns[Last(st)]) = kind
    THEN [stack |-> Front(st), popped |-> TRUE]
    ELSE [stack |-> st, popped |-> FALSE]

\* Mutant of contain_in_stack: only the top of the stack is examined.
contain_in_stack_TopOnly(ns, st, kind) ==
    st # <<>> /\ element_kind(ns[Last(st)]) = kind

\* HtmlParser::contain_in_stack.
contain_in_stack(ns, st, kind) ==
    \E i \in 1..Len(st) : element_kind(ns[st[i]]) = kind

\* Mutant of PopLoop: one pop only.
PopLoop_Once(ns, st, kind) == Front(st)

\* Mutant of PopLoop: the element of the kind is left on the stack.
RECURSIVE PopLoop_KeepTarget(_, _, _)
PopLoop_KeepTarget(ns, st, kind) ==
    IF st = <<>> THEN st
    ELSE IF element_kind(ns[Last(st)]) = kind THEN st
    ELSE PopLoop_KeepTarget(ns, Front(st), kind)

\* Mutant of PopLoop: the loop does not stop at the element of the kind.
PopLoop_ToBottom(ns, st, kind) == <<>>

\* The loop of pop_until: pop until an element of the kind has been popped
\* or the stack is empty.
RECURSIVE PopLoop(_, _, _)
PopLoop(ns, st, kind) ==
    IF st = <<>> THEN st
    ELSE IF element_kind(ns[Last(st)]) = kind THEN Front(st)
    ELSE PopLoop(ns, Front(st), kind)

\* HtmlParser::pop_until.  `panic` is the failure of its assert!.
pop_until(ns, st, kind) ==
    IF ~contain_in_stack(ns, st, kind)
    THEN [stack |-> st, panic |-> TRUE]
    ELSE [stack |-> PopLoop(ns, st, kind), panic |-> FALSE]

\* Mutant of insert_char: last_child of `current` is not updated.
insert_char_NoLastChild(ns, st, c) ==
    IF st = <<>> THEN [nodes |-> ns, stack |-> st, panic |-> FALSE]
    ELSE
    LET current == Last(st)
        node == Len(ns) + 1
        created == Append(ns, create_char_node(c))
        first == ns[current].first_child
        linked ==
            IF first # NoneLink
            THEN [created EXCEPT ![first].next_sibling = node,
                                 ![node].previous_sibling = first]
            ELSE [created EXCEPT ![current].first_child = node]
    IN  IF ns[current].kind = "Text"
        THEN [nodes |-> [ns EXCEPT ![current].text = Append(@, c)],
              stack |-> st, panic |-> FALSE]
        ELSE IF IsSpace(c)
        THEN [nodes |-> ns, stack |-> st, panic |-> FALSE]
        ELSE IF first = current
        THEN [nodes |-> created, stack |-> st, panic |-> TRUE]
        ELSE [nodes |-> [linked EXCEPT ![node].parent = current],
              stack |-> Append(st, node),
              panic |-> FALSE]

\* HtmlParser::insert_char.
insert_char(ns, st, c) ==
    IF st = <<>> THEN [nodes |-> ns, stack |-> st, panic |-> FALSE]
    ELSE
    LET current == Last(st)
        node == Len(ns) + 1
        created == Append(ns, create_char_node(c))
        first == ns[current].first_child
        linked ==
            IF first # NoneLink
            THEN [created EXCEPT ![first].next_sibling = node,
                                 ![node].previous_sibling = first]
            ELSE [created EXCEPT ![current].first_child = node]
    IN  IF ns[current].kind = "Text"
        THEN [nodes |-> [ns EXCEPT ![current].text = Append(@, c)],
              stack |-> st, panic |-> FALSE]
        ELSE IF IsSpace(c)
        THEN [nodes |-> ns, stack |-> st, panic |-> FALSE]
        ELSE IF first = current
        THEN [nodes |-> created, stack |-> st, panic |-> TRUE]
        ELSE [nodes |-> [linked EXCEPT ![current].last_child = node,
                                       ![node].parent = current],
              stack |-> Append(st, node),
              panic |-> FALSE]

(***************************************************************************)
(* The token source (self.t.next()).                                       *)
(***************************************************************************)
\* The results of one call of self.t.next(): the token returned and the
\* state of the source after it.  The source first delivers its opening
\* `input` (`pos` tokens of it are delivered), then at most `left` tokens of
\* Alphabet, then Eof or, exhausted, None; once at its end it returns None.
TokenizerNext(tk) ==
    IF tk.done
    THEN {[token |-> NoToken, t |-> tk]}
    ELSE IF tk.pos < Len(tk.input)
    THEN {[token |-> tk.input[tk.pos + 1], t |-> [tk EXCEPT !.pos = @ + 1]]}
    ELSE {[token |-> e, t |-> [tk EXCEPT !.done = TRUE]] :
              e \in {EofToken, NoToken}}
         \cup {[token |-> x, t |-> [tk EXCEPT !.left = @ - 1]] :
                  x \in (IF tk.left > 0 THEN Alphabet ELSE {})}

\* token = self.t.next()
Advance == \E r \in TokenizerNext(t) : token' = r.token /\ t' = r.t

(***************************************************************************)
(* One iteration of the loop of construct_tree.  Each <Mode>Step is the    *)
(* arm of `match self.mode` for that mode, as the record of what the       *)
(* iteration leaves: the mode, the original insertion mode, the nodes, the *)
(* stack, whether self.t.next() was called, and where control goes         *)
(* ("loop": continue, "returned": return self.window.clone(), "panicked":  *)
(* a failed assert! or borrow).                                            *)
(***************************************************************************)
Same ==
    [mode |-> mode, original |-> original_insertion_mode, nodes |-> nodes,
     stack |-> stack_of_open_elements, consume |-> FALSE, pc |-> "loop"]

\* o, unless the call before it panicked.
OrElse(p, o) == IF p.pc = "panicked" THEN p ELSE o

\* self.insert_element(tag, attributes) in o
Inserted(o, tag, attributes) ==
    LET r == insert_element(o.nodes, o.stack, tag, attributes)
    IN  [o EXCEPT !.nodes = r.nodes, !.stack = r.stack,
                  !.pc = IF r.panic THEN "panicked" ELSE @]

\* self.insert_char(c) in o
CharInserted(o, c) ==
    LET r == insert_char(o.nodes, o.stack, c)
    IN  [o EXCEPT !.nodes = r.nodes, !.stack = r.stack,
                  !.pc = IF r.panic THEN "panicked" ELSE @]

\* self.pop_until(kind) in o
Popped(o, kind) ==
    LET r == pop_until(o.nodes, o.stack, kind)
    IN  [o EXCEPT !.stack = r.stack,
                  !.pc = IF r.panic THEN "panicked" ELSE @]

\* Mutant of IsEof: the arm is missing.
IsEof_Missing(tok) == FALSE

\* The arm `Some(HtmlToken::Eof) | None` of a mode.
IsEof(tok) == tok.type = "Eof" \/ tok.type = "None"

\* Mutant of InitialStep: a Char advances the mode like any other token.
InitialStep_AlwaysAdvance == [Same EXCEPT !.mode = "BeforeHtml"]

InitialStep ==
    IF token.type = "Char"
    THEN [Same EXCEPT !.consume = TRUE]
    ELSE [Same EXCEPT !.mode = "BeforeHtml"]

BeforeHtmlStep ==
    IF token.type = "Char" /\ IsSpace(token.c)
    THEN [Same EXCEPT !.consume = TRUE]
    ELSE IF token.type = "StartTag" /\ token.tag = "html"
    THEN LET i == Inserted(Same, token.tag, token.attributes)
         IN  OrElse(i, [i EXCEPT !.mode = "BeforeHead", !.consume = TRUE])
    ELSE IF IsEof(token)
    THEN [Same EXCEPT !.pc = "returned"]
    ELSE LET i == Inserted(Same, "html", <<>>)
         IN  OrElse(i, [i EXCEPT !.mode = "BeforeHead"])

BeforeHeadStep ==
    IF token.type = "Char" /\ IsSpace(token.c)
    THEN [Same EXCEPT !.consume = TRUE]
    ELSE IF token.type = "StartTag" /\ token.tag = "head"
    THEN LET i == Inserted(Same, token.tag, token.attributes)
         IN  OrElse(i, [i EXCEPT !.mode = "InHead", !.consume = TRUE])
    ELSE IF IsEof(token)
    THEN [Same EXCEPT !.pc = "returned"]
    ELSE LET i == Inserted(Same, "head", <<>>)
         IN  OrElse(i, [i EXCEPT !.mode = "InHead"])

InHeadStep ==
    IF token.type = "Char" /\ IsSpace(token.c)
    THEN LET i == CharInserted(Same, token.c)
         IN  OrElse(i, [i EXCEPT !.consume = TRUE])
    ELSE IF token.type = "StartTag" /\ token.tag \in {"style", "script"}
    THEN LET i == Inserted(Same, token.tag, token.attributes)
         IN  OrElse(i, [i EXCEPT !.original = mode, !.mode = "Text",
                                 !.consume = TRUE])
    ELSE IF token.type = "StartTag"
            /\ (token.tag = "body" \/ ElementKindFromStr(token.tag) # "Err")
    THEN LET q == Popped(Same, "Head")
         IN  OrElse(q, [q EXCEPT !.mode = "AfterHead"])
    ELSE IF token.type = "EndTag" /\ token.tag = "head"
    THEN Popped([Same EXCEPT !.mode = "AfterHead", !.consume = TRUE], "Head")
    ELSE IF IsEof(token)
    THEN [Same EXCEPT !.pc = "returned"]
    ELSE [Same EXCEPT !.consume = TRUE]

AfterHeadStep ==
    IF token.type = "Char" /\ IsSpace(token.c)
    THEN LET i == CharInserted(Same, token.c)
         IN  OrElse(i, [i EXCEPT !.consume = TRUE])
    ELSE IF token.type = "StartTag" /\ token.tag = "body"
    THEN LET i == Inserted(Same, token.tag, token.attributes)
         IN  OrElse(i, [i EXCEPT !.consume = TRUE, !.mode = "InBody"])
    ELSE IF IsEof(token)
    THEN [Same EXCEPT !.pc = "returned"]
    ELSE LET i == Inserted(Same, "body", <<>>)
         IN  OrElse(i, [i EXCEPT !.mode = "InBody"])

\* The arm of InBody for EndTag html.
InBodyEndHtml ==
    LET b == pop_current_node(nodes, stack_of_open_elements, "Body")
        h == pop_current_node(nodes, b.stack, "Html")
    IN  IF b.popped
        THEN [Same EXCEPT !.stack = h.stack, !.mode = "AfterBody",
                          !.pc = IF h.popped THEN "loop" ELSE "panicked"]
        ELSE [Same EXCEPT !.consume = TRUE]

InBodyStep ==
    IF token.type = "StartTag"
    THEN IF token.tag \in {"p", "h1", "h2", "a"}
         THEN LET i == Inserted(Same, token.tag, token.attributes)
              IN  OrElse(i, [i EXCEPT !.consume = TRUE])
         ELSE [Same EXCEPT !.consume = TRUE]
    ELSE IF token.type = "EndTag"
    THEN IF token.tag = "body"
         THEN LET o == [Same EXCEPT !.mode = "AfterBody", !.consume = TRUE]
              IN  IF ~contain_in_stack(nodes, stack_of_open_elements, "Body")
                  THEN o
                  ELSE Popped(o, "Body")
         ELSE IF token.tag = "html"
         THEN InBodyEndHtml
         ELSE IF token.tag \in {"p", "h1", "h2", "a"}
         THEN Popped([Same EXCEPT !.consume = TRUE],
                     ElementKindFromStr(token.tag))
         ELSE [Same EXCEPT !.consume = TRUE]
    ELSE IF token.type = "Char"
    THEN LET i == CharInserted(Same, token.c)
         IN  OrElse(i, [i EXCEPT !.consume = TRUE])
    ELSE [Same EXCEPT !.pc = "returned"]

TextStep ==
    IF IsEof(token)
    THEN [Same EXCEPT !.pc = "returned"]
    ELSE IF token.type = "EndTag" /\ token.tag = "style"
    THEN LET q == Popped(Same, "Style")
         IN  OrElse(q, [q EXCEPT !.mode = original_insertion_mode,
                                 !.consume = TRUE])
    ELSE IF token.type = "EndTag" /\ token.tag = "script"
    THEN LET q == Popped(Same, "Script")
         IN  OrElse(q, [q EXCEPT !.mode = original_insertion_mode,
                                 !.consume = TRUE])
    ELSE IF token.type = "Char"
    THEN LET i == CharInserted(Same, token.c)
         IN  OrElse(i, [i EXCEPT !.consume = TRUE])
    ELSE [Same EXCEPT !.mode = original_insertion_mode]

\* Mutant of AfterBodyStep: the parse resumes in AfterHead, not in InBody.
AfterBodyStep_ToAfterHead ==
    IF token.type = "Char"
    THEN [Same EXCEPT !.consume = TRUE]
    ELSE IF token.type = "EndTag" /\ token.tag = "html"
    THEN [Same EXCEPT !.mode = "AfterAfterBody", !.consume = TRUE]
    ELSE IF IsEof(token)
    THEN [Same EXCEPT !.pc = "returned"]
    ELSE [Same EXCEPT !.mode = "AfterHead"]

AfterBodyStep ==
    IF token.type = "Char"
    THEN [Same EXCEPT !.consume = TRUE]
    ELSE IF token.type = "EndTag" /\ token.tag = "html"
    THEN [Same EXCEPT !.mode = "AfterAfterBody", !.consume = TRUE]
    ELSE IF IsEof(token)
    THEN [Same EXCEPT !.pc = "returned"]
    ELSE [Same EXCEPT !.mode = "InBody"]

\* Mutant of AfterAfterBodyStep: the parse starts over in Initial.
AfterAfterBodyStep_Restart ==
    IF token.type = "Char"
    THEN [Same EXCEPT !.consume = TRUE]
    ELSE IF IsEof(token)
    THEN [Same EXCEPT !.pc = "returned"]
    ELSE [Same EXCEPT !.mode = "Initial"]

AfterAfterBodyStep ==
    IF token.type = "Char"
    THEN [Same EXCEPT !.consume = TRUE]
    ELSE IF IsEof(token)
    THEN [Same EXCEPT !.pc = "returned"]
    ELSE [Same EXCEPT !.mode = "InBody"]

(***************************************************************************)
(* History of the current run of Char tokens dispatched in InBody: the top *)
(* of the stack (0: the stack was empty) and the number of nodes when the  *)
(* run began, and the characters dispatched so far.  It is written only,   *)
(* never read by an action.                                                *)
(***************************************************************************)
NoRun == [active |-> FALSE, top |-> NoneLink, size |-> NoneLink, chars |-> <<>>]

RunAfterDispatch ==
    IF mode = "InBody" /\ token.type = "Char"
    THEN IF run.active
         THEN [run EXCEPT !.chars = Append(@, token.c)]
         ELSE [active |-> TRUE,
               top |-> IF stack_of_open_elements = <<>> THEN NoneLink
                       ELSE Last(stack_of_open_elements),
               size |-> Len(nodes),
               chars |-> <<token.c>>]
    ELSE NoRun

(***************************************************************************)
(* Actions.                                                                *)
(***************************************************************************)
Apply(o) ==
    /\ mode' = o.mode
    /\ original_insertion_mode' = o.original
    /\ nodes' = o.nodes
    /\ stack_of_open_elements' = o.stack
    /\ pc' = o.pc
    /\ run' = RunAfterDispatch
    /\ IF o.consume THEN Advance ELSE UNCHANGED <<token, t>>
    /\ UNCHANGED <<url, http>>

\* `while token.is_some()` holds and self.mode is m.
Dispatching(m) == pc = "loop" /\ token # NoToken /\ mode = m

Init ==
    /\ mode = "Initial"
    /\ original_insertion_mode = "Initial"
    /\ stack_of_open_elements = <<>>
    /\ nodes = <<DocumentNode>>
    /\ token = NoToken
    /\ t \in {[input |-> p, pos |-> 0, left |-> MaxTokens,
                done |-> FALSE] : p \in Preambles}
    /\ pc = "start"
    /\ run = NoRun
    /\ url = NoCall
    /\ http = NoCall

\* let mut token = self.t.next();
Start ==
    /\ pc = "start"
    /\ pc' = "loop"
    /\ Advance
    /\ UNCHANGED <<mode, original_insertion_mode, stack_of_open_elements,
                   nodes, run, url, http>>

\* `while token.is_some()` fails: self.window.clone() is returned.
LoopExit ==
    /\ pc = "loop"
    /\ token = NoToken
    /\ pc' = "returned"
    /\ UNCHANGED <<mode, original_insertion_mode, stack_of_open_elements,
                   nodes, token, t, run, url, http>>

Initial == Dispatching("Initial") /\ Apply(InitialStep)

BeforeHtml == Dispatching("BeforeHtml") /\ Apply(BeforeHtmlStep)

BeforeHead == Dispatching("BeforeHead") /\ Apply(BeforeHeadStep)

InHead == Dispatching("InHead") /\ Apply(InHeadStep)

AfterHead == Dispatching("AfterHead") /\ Apply(AfterHeadStep)

InBody == Dispatching("InBody") /\ Apply(InBodyStep)

Text == Dispatching("Text") /\ Apply(TextStep)

AfterBody == Dispatching("AfterBody") /\ Apply(AfterBodyStep)

AfterAfterBody == Dispatching("AfterAfterBody") /\ Apply(AfterAfterBodyStep)

Next ==
    \/ Start
    \/ LoopExit
    \/ Initial
    \/ BeforeHtml
    \/ BeforeHead
    \/ InHead
    \/ AfterHead
    \/ InBody
    \/ Text
    \/ AfterBody
    \/ AfterAfterBody

Spec == Init /\ [][Next]_vars

\* The loop has no suspension point: an enabled iteration is taken.
FairSpec == Spec /\ WF_vars(Next)

(***************************************************************************)
(* Strings.  A String is the sequence of its characters; the operators     *)
(* below are the methods of str that url.rs and http.rs call.              *)
(***************************************************************************)
\* The strings of at most n characters of S.
StringsUpTo(S, n) == UNION {[1..k -> S] : k \in 0..n}

\* s[i..] with i counted from 0.
From(s, i) == SubSeq(s, i + 1, Len(s))

\* s[..i] with i counted from 0.
Upto(s, i) == SubSeq(s, 1, i)

\* s.starts_with(p)
StartsWith(s, p) == Len(s) >= Len(p) /\ SubSeq(s, 1, Len(p)) = p

\* The offsets, counted from 0, at which p occurs in s.
Occurrences(s, p) ==
    {i \in 0..(Len(s) - Len(p)) : SubSeq(s, i + 1, i + Len(p)) = p}

\* s.find(p) is Some(..)
Found(s, p) == Occurrences(s, p) # {}

\* s.find(p): the offset of the first occurrence of p (when Found).
Find(s, p) == CHOOSE i \in Occurrences(s, p) :
                  \A j \in Occurrences(s, p) : i <= j

\* s.splitn(2, p).collect(): one part, or the parts before and after the
\* first occurrence of p.
SplitN2(s, p) ==
    IF Found(s, p)
    THEN <<Upto(s, Find(s, p)), From(s, Find(s, p) + Len(p))>>
    ELSE <<s>>

\* s.split(p).collect()
RECURSIVE Split(_, _)
Split(s, p) ==
    IF Found(s, p)
    THEN <<Upto(s, Find(s, p))>> \o Split(From(s, Find(s, p) + Len(p)), p)
    ELSE <<s>>

\* char::is_whitespace, for the characters of the inputs.
IsWhitespace(c) == c \in {" ", "\n", "\r", "\t"}

\* s.trim_start()
RECURSIVE TrimStart(_)
TrimStart(s) ==
    IF s # <<>> /\ IsWhitespace(s[1]) THEN TrimStart(Tail(s)) ELSE s

\* s.trim_end()
RECURSIVE TrimEnd(_)
TrimEnd(s) ==
    IF s # <<>> /\ IsWhitespace(s[Len(s)])
    THEN TrimEnd(SubSeq(s, 1, Len(s) - 1))
    ELSE s

\* s.trim()
Trim(s) == TrimEnd(TrimStart(s))

\* s.replace(from, to)
RECURSIVE Replace(_, _, _)
Replace(s, from, to) ==
    IF Found(s, from)
    THEN Upto(s, Find(s, from)) \o to
             \o Replace(From(s, Find(s, from) + Len(from)), from, to)
    ELSE s

(***************************************************************************)
(* Url::new (src/saba_core/src/url.rs).  A function that can panic gives   *)
(* the record [panic, value].                                              *)
(***************************************************************************)
SchemeSeparator == <<":", "/", "/">>

\* SUPPORTED_PROTOCOLS
SUPPORTED_PROTOCOLS == {<<"h", "t", "t", "p">>}

is_supported_protocol(u) ==
    \E protocol \in SUPPORTED_PROTOCOLS :
        StartsWith(u, protocol \o SchemeSeparator)

remove_scheme(u) ==
    IF Found(u, SchemeSeparator)
    THEN From(u, Find(u, SchemeSeparator) + 3)
    ELSE u

extract_host(u) ==
    LET scheme_removed == remove_scheme(u)
    IN  IF Found(scheme_removed, <<"/">>)
        THEN Split(Upto(scheme_removed, Find(scheme_removed, <<"/">>)),
                   <<":">>)[1]
        ELSE Split(scheme_removed, <<":">>)[1]

\* a[0][index + 1..] panics when index + 1 is beyond the end of a[0].
extract_port(u) ==
    LET scheme_removed == remove_scheme(u)
        index == Find(scheme_removed, <<":">>)
        a == SplitN2(scheme_removed, <<"/">>)
    IN  IF Found(scheme_removed, <<":">>)
        THEN IF index + 1 <= Len(a[1])
             THEN [panic |-> FALSE, value |-> From(a[1], index + 1)]
             ELSE [panic |-> TRUE, value |-> <<>>]
        ELSE [panic |-> FALSE, value |-> <<"8", "0">>]

extract_path(u) ==
    LET url_parts == SplitN2(remove_scheme(u), <<"/">>)
    IN  IF Len(url_parts) < 2
        THEN <<>>
        ELSE SplitN2(url_parts[2], <<"?">>)[1]

extract_searchpart(u) ==
    LET a == SplitN2(u, <<"?">>)
    IN  IF Len(a) < 2 THEN <<>> ELSE a[2]

\* Url::new(url): Err, Ok with the fields of Url, or a panic.
UrlNew(u) ==
    IF ~is_supported_protocol(u)
    THEN [status |-> "Err", error |-> "Invalid scheme."]
    ELSE IF extract_port(u).panic
    THEN [status |-> "panic"]
    ELSE [status |-> "Ok", url |-> u, host |-> extract_host(u),
          port |-> extract_port(u).value, path |-> extract_path(u),
          searchpart |-> extract_searchpart(u)]

\* The arguments of Url::new: a scheme, or none, followed by at most
\* MaxUrlLen characters, and the URL of test_url_host_port_path_seachquery.
UrlChars == {"a", ":", "/", "?"}

Schemes ==
    {<<>>, <<"h", "t", "t", "p", ":", "/", "/">>,
     <<"h", "t", "t", "p", "s", ":", "/", "/">>}

TestUrl ==
    <<"h", "t", "t", "p", ":", "/", "/", "e", "x", "a", "m", "p", "l", "e",
      ".", "c", "o", "m", ":", "8", "8", "8", "8", "/", "i", "n", "d", "e",
      "x", ".", "h", "t", "m", "l", "?", "a", "=", "1", "2", "3", "&", "b",
      "=", "4", "5", "6">>

UrlInputs ==
    {sc \o r : sc \in Schemes, r \in StringsUpTo(UrlChars, MaxUrlLen)}
        \cup {TestUrl}

Pending == [status |-> "pending"]

\* The parser is not running.
ParserIdle ==
    /\ mode = "Initial"
    /\ original_insertion_mode = "Initial"
    /\ stack_of_open_elements = <<>>
    /\ nodes = <<DocumentNode>>
    /\ token = NoToken
    /\ t = [input |-> <<>>, pos |-> 0, left |-> 0, done |-> TRUE]
    /\ pc = "idle"
    /\ run = NoRun

parserVars ==
    <<mode, original_insertion_mode, stack_of_open_elements, nodes, token, t,
      pc, run>>

UrlInit ==
    /\ ParserIdle
    /\ url \in {[input |-> u, result |-> Pending] : u \in UrlInputs}
    /\ http = NoCall

\* Url::new(url.input)
UrlNewCall ==
    /\ url.result = Pending
    /\ url' = [url EXCEPT !.result = UrlNew(url.input)]
    /\ UNCHANGED <<parserVars, http>>

UrlSpec == UrlInit /\ [][UrlNewCall]_vars

(***************************************************************************)
(* HttpResponse::new (src/saba_core/src/http.rs).                          *)
(***************************************************************************)
Digits == <<"0", "1", "2", "3", "4", "5", "6", "7", "8", "9">>

DigitValue(c) == (CHOOSE i \in 1..Len(Digits) : Digits[i] = c) - 1

IsDigit(c) == \E i \in 1..Len(Digits) : Digits[i] = c

RECURSIVE DecimalValue(_)
DecimalValue(s) ==
    IF s = <<>>
    THEN 0
    ELSE 10 * DecimalValue(SubSeq(s, 1, Len(s) - 1)) + DigitValue(s[Len(s)])

\* u32::MAX in decimal.
U32MaxDigits == <<"4", "2", "9", "4", "9", "6", "7", "2", "9", "5">>

RECURSIVE StripZeros(_)
StripZeros(s) ==
    IF Len(s) > 1 /\ s[1] = "0" THEN StripZeros(Tail(s)) ELSE s

\* a <= b for two digit strings of the same length.
RECURSIVE DigitsLeq(_, _)
DigitsLeq(a, b) ==
    \/ a = <<>>
    \/ DigitValue(a[1]) < DigitValue(b[1])
    \/ a[1] = b[1] /\ DigitsLeq(Tail(a), Tail(b))

FitsU32(s) ==
    \/ Len(StripZeros(s)) < Len(U32MaxDigits)
    \/ /\ Len(StripZeros(s)) = Len(U32MaxDigits)
       /\ DigitsLeq(StripZeros(s), U32MaxDigits)

\* s.parse::<u32>().unwrap_or(404): an optional '+', then digits only, at
\* least one, and a value that fits u32; 404 otherwise.
ParseOr404(s) ==
    LET digits == IF s # <<>> /\ s[1] = "+" THEN Tail(s) ELSE s
    IN  IF /\ digits # <<>>
           /\ \A i \in 1..Len(digits) : IsDigit(digits[i])
           /\ FitsU32(digits)
        THEN DecimalValue(StripZeros(digits))
        ELSE 404

\* Header::new(name, value)
Header(name, value) == [name |-> name, value |-> value]

\* The for loop over h.split("\n"): splitted[1] panics on a line without ':'.
HeaderLines(h) == Split(h, <<"\n">>)

HeadersPanic(h) ==
    \E i \in 1..Len(HeaderLines(h)) :
        Len(SplitN2(HeaderLines(h)[i], <<":">>)) < 2

ParseHeaders(h) ==
    [i \in 1..Len(HeaderLines(h)) |->
        Header(Trim(SplitN2(HeaderLines(h)[i], <<":">>)[1]),
               Trim(SplitN2(HeaderLines(h)[i], <<":">>)[2]))]

\* HttpResponse::new(raw_response): Err, Ok with the fields of HttpResponse,
\* or a panic.
HttpResponseNew(raw_response) ==
    LET preprocessed_response ==
            Replace(TrimStart(raw_response), <<"\n", "\r">>, <<"\n">>)
        first == SplitN2(preprocessed_response, <<"\n">>)
        status_line == first[1]
        remaining == first[2]
        rest == SplitN2(remaining, <<"\n", "\n">>)
        statuses == Split(status_line, <<" ">>)
    IN  IF Len(first) < 2
        THEN [status |-> "Err", error |-> "Network",
              message |-> preprocessed_response]
        ELSE IF Len(rest) = 2 /\ HeadersPanic(rest[1])
        THEN [status |-> "panic"]
        ELSE IF Len(statuses) < 3
        THEN [status |-> "panic"]
        ELSE [status |-> "Ok",
              version |-> statuses[1],
              status_code |-> ParseOr404(statuses[2]),
              reason |-> statuses[3],
              headers |-> IF Len(rest) = 2 THEN ParseHeaders(rest[1])
                          ELSE <<>>,
              body |-> IF Len(rest) = 2 THEN rest[2] ELSE remaining]

\* The arguments of HttpResponse::new: nothing or a status line, followed
\* by at most MaxHttpLen characters, and the response of test_body.
HttpChars == {"a", " ", ":", "\n", "\r"}

StatusLines == {<<>>, <<"a", " ", "2", "0", "0", " ", "a", "\n">>}

TestBody ==
    <<"H", "T", "T", "P", "/", "1", ".", "1", " ", "2", "0", "0", " ", "O",
      "K", "\n", "D", "a", "t", "e", ":", " ", "x", "x", " ", "x", "x",
      " ", "x", "x", "\n", "\n", "b", "o", "d", "y", " ", "m", "e", "s",
      "s", "a", "g", "e">>

HttpInputs ==
    {sl \o r : sl \in StatusLines, r \in StringsUpTo(HttpChars, MaxHttpLen)}
        \cup {TestBody}

HttpInit ==
    /\ ParserIdle
    /\ url = NoCall
    /\ http \in {[input |-> r, result |-> Pending] : r \in HttpInputs}

\* HttpResponse::new(http.input)
HttpResponseNewCall ==
    /\ http.result = Pending
    /\ http' = [http EXCEPT !.result = HttpResponseNew(http.input)]
    /\ UNCHANGED <<parserVars, url>>

HttpSpec == HttpInit /\ [][HttpResponseNewCall]_vars

(***************************************************************************)
(* Properties.                                                             *)
(***************************************************************************)
\* The input was exactly the opening `input` followed by Eof, and
\* construct_tree has returned.
ReturnedOn(input) ==
    /\ pc = "returned"
    /\ token = EofToken
    /\ t.input = input
    /\ t.pos = Len(input)
    /\ t.left = MaxTokens

\* The node sequences that follow first_child and next_sibling, written in
\* the formulas without the operators of the model: the chain from node n.
RECURSIVE ChainFrom(_, _, _)
ChainFrom(ns, n, fuel) ==
    IF n = 0 \/ fuel = 0 THEN <<>>
    ELSE <<n>> \o ChainFrom(ns, ns[n].next_sibling, fuel - 1)

ChildList(ns, p) == ChainFrom(ns, ns[p].first_child, Len(ns) + 1)

IsElement(n, tag) == n.kind = "Element" /\ n.tag = tag

\* C1: for <html><head></head><body></body></html> the tree is exactly
\* Document -> html -> [head, body]: html is the only child of the Document,
\* head is html's first child, body is head's next sibling, head and body
\* have no children, and there are no nodes but these four.
C1_MinimalDocumentTree ==
    ReturnedOn(MinimalDocument) =>
        /\ Len(nodes) = 4
        /\ nodes[1].kind = "Document"
        /\ ChildList(nodes, 1) = <<2>>
        /\ IsElement(nodes[2], "html") /\ nodes[2].attributes = <<>>
        /\ nodes[2].first_child = 3
        /\ IsElement(nodes[3], "head") /\ nodes[3].attributes = <<>>
        /\ nodes[3].next_sibling = 4
        /\ IsElement(nodes[4], "body") /\ nodes[4].attributes = <<>>
        /\ nodes[4].next_sibling = 0
        /\ nodes[3].first_child = 0
        /\ nodes[4].first_child = 0
        /\ Cardinality({i \in 1..Len(nodes) :
                           nodes[i].kind = "Element"
                           /\ nodes[i].tag \in {"html", "head", "body"}}) = 3

C1_Witness == ReturnedOn(MinimalDocument) /\ mode = "AfterAfterBody"

\* The step is one iteration of the loop (a dispatch) in mode m.
DispatchIn(m) == pc = "loop" /\ token # NoToken /\ mode = m

\* The node the step allocated, when it allocated one.
Allocated == Len(nodes') = Len(nodes) + 1

NewNodeId == Len(nodes) + 1

\* The top of the stack before the step, or the Document when it is empty.
TopOrRoot ==
    IF stack_of_open_elements = <<>> THEN 1
    ELSE stack_of_open_elements[Len(stack_of_open_elements)]

\* C2: an Element node created for a StartTag token carries the token's tag
\* name and its attributes unchanged and in order; an element the parser
\* synthesizes (html, head, body, for a token that is not its start tag) has
\* no attributes; either way the new element is linked as the last child of
\* the node on top of the stack (of the Document when the stack is empty).
C2_ElementCarriesToken ==
    [][(pc = "loop" /\ Allocated /\ nodes'[NewNodeId].kind = "Element") =>
          LET n == nodes'[NewNodeId]
              chain == ChildList(nodes', TopOrRoot)
          IN  /\ n.parent = TopOrRoot
              /\ chain # <<>> /\ chain[Len(chain)] = NewNodeId
              /\ IF token.type = "StartTag" /\ token.tag = n.tag
                 THEN n.attributes = token.attributes
                 ELSE n.tag \in {"html", "head", "body"}
                      /\ n.attributes = <<>>
      ]_vars

\* <body><p><a foo=bar>text: body -> p -> a(foo=bar) -> Text("text"...).
C2_Witness ==
    \E a \in 1..Len(nodes) :
        /\ IsElement(nodes[a], "a")
        /\ nodes[a].attributes = <<[name |-> "foo", value |-> "bar"]>>
        /\ nodes[a].parent # 0
        /\ IsElement(nodes[nodes[a].parent], "p")
        /\ IsElement(nodes[nodes[nodes[a].parent].parent], "body")
        /\ nodes[a].first_child # 0
        /\ nodes[nodes[a].first_child].kind = "Text"

\* s without its leading spaces and newlines.
RECURSIVE StripLeading(_)
StripLeading(s) ==
    IF s # <<>> /\ s[1] \in {" ", "\n"}
    THEN StripLeading(SubSeq(s, 2, Len(s)))
    ELSE s

\* A run of Char tokens dispatched in InBody has ended (the token now
\* current is no Char) and it began with a node that is not a Text node on
\* top of the stack.
RunEnded ==
    /\ run.active
    /\ token.type # "Char"
    /\ run.top # 0
    /\ nodes[run.top].kind # "Text"

\* C3: such a run created no node when it holds only spaces and newlines,
\* and otherwise exactly one node: a Text node whose content is the run
\* without its leading spaces and newlines, linked under the node that was
\* on top of the stack, and on top of the stack when the run ends.
C3_CharRunMakesOneTextNode ==
    RunEnded =>
        LET text == StripLeading(run.chars)
            n == run.size + 1
        IN  IF text = <<>>
            THEN Len(nodes) = run.size
                 /\ stack_of_open_elements # <<>>
                 /\ stack_of_open_elements[Len(stack_of_open_elements)]
                        = run.top
            ELSE /\ Len(nodes) = n
                 /\ nodes[n].kind = "Text"
                 /\ nodes[n].text = text
                 /\ nodes[n].parent = run.top
                 /\ \E i \in 1..Len(ChildList(nodes, run.top)) :
                        ChildList(nodes, run.top)[i] = n
                 /\ stack_of_open_elements # <<>>
                 /\ stack_of_open_elements[Len(stack_of_open_elements)] = n

\* A run "\n", "x", " " under an element: leading white space dropped, inner kept.
C3_Witness ==
    /\ RunEnded
    /\ run.chars = <<"\n", "x", " ">>
    /\ nodes[Len(nodes)].text = <<"x", " ">>

\* C4: dispatching Eof, or finding the token source exhausted, inserts no
\* node and leaves the stack alone, and construct_tree returns (from Initial
\* after the change of mode to BeforeHtml); for the empty input the Document
\* has no children.
C4_EofInsertsNothing ==
    /\ [][(pc = "loop" /\ token.type \in {"Eof", "None"}) =>
             /\ nodes' = nodes
             /\ stack_of_open_elements' = stack_of_open_elements
             /\ token' = token
             /\ \/ pc' = "returned"
                \/ mode = "Initial" /\ mode' = "BeforeHtml" /\ pc' = "loop"
         ]_vars
    /\ [](ReturnedOn(<<>>) => nodes = <<NewNode("Document", "", <<>>, <<>>)>>)

\* Eof arrives while style and its text are open: nothing is closed or added.
C4_Witness ==
    /\ pc = "returned"
    /\ token = EofToken
    /\ mode = "Text"
    /\ Len(stack_of_open_elements) = 4

\* C5: when the mode becomes InBody from a mode that precedes InBody (not
\* back from AfterBody or AfterAfterBody), the Document's only child is
\* html, html's children are exactly head and body in this order, and the
\* stack is [html, body].
C5_InBodyFirstReached ==
    [][(mode \notin {"InBody", "AfterBody", "AfterAfterBody"}
        /\ mode' = "InBody") =>
          /\ Len(ChildList(nodes', 1)) = 1
          /\ LET h == nodes'[1].first_child
                 c == ChildList(nodes', h)
             IN  /\ IsElement(nodes'[h], "html")
                 /\ Len(c) = 2
                 /\ IsElement(nodes'[c[1]], "head")
                 /\ IsElement(nodes'[c[2]], "body")
                 /\ stack_of_open_elements' = <<h, c[2]>>
      ]_vars

\* The first token is <p>: html, head and body are all synthesized.
C5_Witness ==
    /\ mode = "InBody"
    /\ t.input = <<>>
    /\ t.left = MaxTokens - 1
    /\ token = [type |-> "StartTag", tag |-> "p", attributes |-> <<>>]
    /\ Len(nodes) = 4
    /\ stack_of_open_elements = <<2, 4>>

\* C6: construct_tree runs to completion: on every input the loop
\* eventually returns.
C6_EventuallyReturns == <>(pc = "returned")

IsEndTagOf(tok, tags) == tok.type = "EndTag" /\ tok.tag \in tags

\* No element with this tag is on the stack.
NotOpen(tag) ==
    \A i \in 1..Len(stack_of_open_elements) :
        ~IsElement(nodes[stack_of_open_elements[i]], tag)

\* C7: in InBody an EndTag p/h1/h2/a with no element of that kind on the
\* stack is consumed, stack and tree stay as they are, and the parse goes on.
C7_StrayEndTagDropped ==
    [][(DispatchIn("InBody") /\ IsEndTagOf(token, {"p", "h1", "h2", "a"})
        /\ NotOpen(token.tag)) =>
          /\ pc' = "loop"
          /\ t' # t
          /\ nodes' = nodes
          /\ stack_of_open_elements' = stack_of_open_elements
      ]_vars

\* C8: in InBody, EndTag html never aborts.  With a body element on top of
\* the stack, the entry beneath it is the html element, both are popped, the
\* mode becomes AfterBody and the token stays current; otherwise the token
\* is consumed, mode and stack staying as they are.  In AfterBody, EndTag
\* html is consumed and the mode becomes AfterAfterBody.
C8_EndHtmlNeverAborts ==
    /\ [][(DispatchIn("InBody") /\ IsEndTagOf(token, {"html"})) =>
             LET st == stack_of_open_elements
                 k == Len(st)
             IN  /\ pc' = "loop"
                 /\ nodes' = nodes
                 /\ IF k > 0 /\ IsElement(nodes[st[k]], "body")
                    THEN /\ k >= 2
                         /\ IsElement(nodes[st[k - 1]], "html")
                         /\ stack_of_open_elements' = SubSeq(st, 1, k - 2)
                         /\ mode' = "AfterBody"
                         /\ token' = token /\ t' = t
                    ELSE /\ stack_of_open_elements' = st
                         /\ mode' = "InBody"
                         /\ t' # t
         ]_vars
    /\ [][(DispatchIn("AfterBody") /\ IsEndTagOf(token, {"html"})) =>
             /\ pc' = "loop"
             /\ mode' = "AfterAfterBody"
             /\ t' # t
             /\ stack_of_open_elements' = stack_of_open_elements
         ]_vars

\* </html> with body on top has popped body and html and is dispatched again
\* in AfterBody.
C8_Witness ==
    /\ pc = "loop"
    /\ mode = "AfterBody"
    /\ IsEndTagOf(token, {"html"})
    /\ stack_of_open_elements = <<>>
    /\ Len(nodes) >= 4

\* C9: in InBody a StartTag p/h1/h2/a pops nothing: the stack afterwards is
\* the stack before with the new element on top, and the new element is the
\* last child of what was on top of the stack (of the Document when the
\* stack was empty).
C9_NoAutoClose ==
    [][(DispatchIn("InBody") /\ token.type = "StartTag"
        /\ token.tag \in {"p", "h1", "h2", "a"}) =>
          LET chain == ChildList(nodes', TopOrRoot)
          IN  /\ pc' = "loop" /\ mode' = "InBody"
              /\ Allocated
              /\ IsElement(nodes'[NewNodeId], token.tag)
              /\ stack_of_open_elements'
                     = stack_of_open_elements \o <<NewNodeId>>
              /\ chain # <<>> /\ chain[Len(chain)] = NewNodeId
              /\ nodes'[TopOrRoot].last_child = NewNodeId
              /\ nodes'[NewNodeId].parent = TopOrRoot
      ]_vars

\* <p><p>: the second p is a child of the first, both are open.
C9_Witness ==
    LET st == stack_of_open_elements
        k == Len(st)
    IN  /\ k >= 2
        /\ IsElement(nodes[st[k]], "p")
        /\ IsElement(nodes[st[k - 1]], "p")
        /\ nodes[st[k]].parent = st[k - 1]
        /\ nodes[st[k - 1]].first_child = st[k]

\* C10 as claimed: in Initial a Char advances the mode to BeforeHtml and
\* stays the current token.
C10_CharAdvancesInitial ==
    [][(DispatchIn("Initial") /\ token.type = "Char") =>
          /\ mode' = "BeforeHtml"
          /\ token' = token
          /\ t' = t
      ]_vars

\* C10, amended: in Initial a Char is consumed and the mode stays Initial;
\* any other token advances the mode to BeforeHtml and stays the current
\* token.  Neither touches the tree or the stack.
C10_InitialSkipsChars ==
    [][DispatchIn("Initial") =>
          /\ pc' = "loop"
          /\ nodes' = nodes
          /\ stack_of_open_elements' = stack_of_open_elements
          /\ IF token.type = "Char"
             THEN mode' = "Initial" /\ t' # t
             ELSE mode' = "BeforeHtml" /\ token' = token /\ t' = t
      ]_vars

\* A Char was consumed in Initial and the next token, a start tag, is
\* dispatched in Initial too.
C10_Witness ==
    /\ pc = "loop"
    /\ mode = "Initial"
    /\ t.input = <<>>
    /\ t.left = MaxTokens - 2
    /\ token.type = "StartTag"

(***************************************************************************)
(* The URL layer.                                                          *)
(***************************************************************************)
\* A call of Url::new has finished, by a return or by a panic.
UrlCalled == url.result.status \in {"Ok", "Err", "panic"}

\* The text of s before the first character that is in S, all of s when it
\* has none.
Before(s, S) ==
    IF \E i \in 1..Len(s) : s[i] \in S
    THEN SubSeq(s, 1, (CHOOSE i \in 1..Len(s) :
                         /\ s[i] \in S
                         /\ \A j \in 1..(i - 1) : s[j] \notin S) - 1)
    ELSE s

\* The text of s after the first character c; has_c says there is one.
After(s, c) == SubSeq(s, Len(Before(s, {c})) + 2, Len(s))

Has(s, c) == \E i \in 1..Len(s) : s[i] = c

BeginsWithHttp(u) ==
    Len(u) >= 7 /\ SubSeq(u, 1, 7) = <<"h", "t", "t", "p", ":", "/", "/">>

\* The text after "://" of an input that begins with "http://".
AfterScheme(u) == SubSeq(u, 8, Len(u))

\* The text after "://" up to the first '/'.
HostPart(u) == Before(AfterScheme(u), {"/"})

\* C11: Url::new returns Err("Invalid scheme.") for every input that does
\* not begin with "http://"; for every input that does, it returns Ok with
\* host = the text after "://" up to the first ':' or '/', port = the text
\* between that ':' and the first '/' ("80" when the host part has no ':'),
\* path = the text after the first '/' up to '?', and searchpart = the text
\* after the first '?'.
C11_UrlNewContract ==
    UrlCalled =>
        IF ~BeginsWithHttp(url.input)
        THEN url.result = [status |-> "Err", error |-> "Invalid scheme."]
        ELSE /\ url.result.status = "Ok"
             /\ url.result.host = Before(AfterScheme(url.input), {":", "/"})
             /\ url.result.port =
                    IF Has(HostPart(url.input), ":")
                    THEN After(HostPart(url.input), ":")
                    ELSE <<"8", "0">>
             /\ url.result.path =
                    IF Has(AfterScheme(url.input), "/")
                    THEN Before(After(AfterScheme(url.input), "/"), {"?"})
                    ELSE <<>>
             /\ url.result.searchpart =
                    IF Has(url.input, "?")
                    THEN After(url.input, "?")
                    ELSE <<>>

(***************************************************************************)
(* The HTTP layer.                                                         *)
(***************************************************************************)
\* A call of HttpResponse::new has finished, by a return or by a panic.
HttpCalled == http.result.status \in {"Ok", "Err", "panic"}

\* The text the response is read from: left-trimmed, "\n\r" read as "\n".
ResponseText(raw) == Replace(TrimStart(raw), <<"\n", "\r">>, <<"\n">>)

\* The text after the first line.
Remainder(raw) == After(ResponseText(raw), "\n")

\* The name and the value of a header line: the trimmed text before and
\* after its first ':'.
LineAsHeader(line) ==
    [name |-> Trim(Before(line, {":"})), value |-> Trim(After(line, ":"))]

\* C12: for every input text, HttpResponse::new returns Err when the
\* (left-trimmed) text contains no newline, and otherwise returns Ok; when
\* the text after the first line contains no blank-line separator ("\n\n")
\* the header list is empty and the body is that whole remainder, and when it
\* does, each header line is split at its first ':' into trimmed name and
\* value.
C12_HttpResponseContract ==
    HttpCalled =>
        IF ~Has(TrimStart(http.input), "\n")
        THEN http.result.status = "Err"
        ELSE /\ http.result.status = "Ok"
             /\ IF ~Found(Remainder(http.input), <<"\n", "\n">>)
                THEN /\ http.result.headers = <<>>
                     /\ http.result.body = Remainder(http.input)
                ELSE LET h == Upto(Remainder(http.input),
                                   Find(Remainder(http.input), <<"\n", "\n">>))
                     IN  /\ Len(http.result.headers) = Len(Split(h, <<"\n">>))
                         /\ \A i \in 1..Len(http.result.headers) :
                                http.result.headers[i] =
                                    LineAsHeader(Split(h, <<"\n">>)[i])

(***************************************************************************)
(* The links of the tree.                                                  *)
(***************************************************************************)
\* The step is a dispatch of a Char token that created a Text node under a
\* node that had children.
NewTextUnderParent ==
    /\ pc = "loop"
    /\ token.type = "Char"
    /\ Allocated
    /\ nodes'[NewNodeId].kind = "Text"
    /\ stack_of_open_elements # <<>>
    /\ ChildList(nodes, TopOrRoot) # <<>>

\* C13: when insert_char creates a new Text node under a current node that
\* already has children, every child that was in the current node's sibling
\* chain before the call is still in it afterwards, in the same order,
\* followed by the new Text node.
C13_InsertCharAppends ==
    [][NewTextUnderParent =>
          ChildList(nodes', TopOrRoot)
              = ChildList(nodes, TopOrRoot) \o <<NewNodeId>>
      ]_vars

\* C14: for every node that has a first_child, walking next_sibling from
\* first_child ends exactly at the node referenced by last_child; a node with
\* no first_child has no last_child.
C14_LastChildEndsChain ==
    \A n \in 1..Len(nodes) :
        IF nodes[n].first_child = 0
        THEN nodes[n].last_child = 0
        ELSE LET chain == ChildList(nodes, n)
             IN  /\ Len(chain) <= Len(nodes)
                 /\ nodes[chain[Len(chain)]].next_sibling = 0
                 /\ chain[Len(chain)] = nodes[n].last_child

\* Both insertion paths have appended to a chain: an element has an element
\* child followed by a Text child, and another has two element children.
C14_Witness ==
    /\ \E n \in 1..Len(nodes) :
           /\ Len(ChildList(nodes, n)) = 2
           /\ nodes[ChildList(nodes, n)[1]].kind = "Element"
           /\ nodes[nodes[n].last_child].kind = "Text"
    /\ \E n \in 1..Len(nodes) :
           /\ Len(ChildList(nodes, n)) = 2
           /\ nodes[nodes[n].last_child].kind = "Element"

\* The children of the nodes of S.
Kids(ns, S) ==
    UNION {{ChildList(ns, x)[i] : i \in 1..Len(ChildList(ns, x))} : x \in S}

\* The nodes reached from the nodes of `frontier` by child links, `seen`
\* being those reached already.
RECURSIVE Reach(_, _, _)
Reach(ns, frontier, seen) ==
    IF frontier \subseteq seen THEN seen
    ELSE Reach(ns, Kids(ns, frontier \ seen), seen \cup frontier)

\* The nodes below x: its children, their children, and so on.
Below(ns, x) == Reach(ns, Kids(ns, {x}), {})

\* C15: the first_child/next_sibling links form a tree rooted at the
\* Document: there is no cycle, no node appears in the child chains of two
\* different nodes or twice in one chain, and every node in the child chain
\* of x has its parent link referring to x.
C15_LinksFormTree ==
    /\ \A x \in 1..Len(nodes) :
           LET chain == ChildList(nodes, x)
           IN  /\ Len(chain) <= Len(nodes)
               /\ \A i, j \in 1..Len(chain) : chain[i] = chain[j] => i = j
               /\ \A i \in 1..Len(chain) : nodes[chain[i]].parent = x
               /\ x \notin Below(nodes, x)
    /\ \A x, y \in 1..Len(nodes) :
           x # y =>
               \A i \in 1..Len(ChildList(nodes, x)) :
                   \A j \in 1..Len(ChildList(nodes, y)) :
                       ChildList(nodes, x)[i] # ChildList(nodes, y)[j]
    /\ nodes[1].kind = "Document"
    /\ nodes[1].parent = 0
    /\ \A x \in 1..Len(nodes) : nodes[x].kind = "Document" => x = 1

\* A tree three levels deep below html, with a Text leaf.
C15_Witness ==
    \E x \in 1..Len(nodes) :
        /\ nodes[x].kind = "Text"
        /\ nodes[x].parent # 0
        /\ nodes[nodes[x].parent].parent # 0
        /\ IsElement(nodes[nodes[nodes[x].parent].parent], "body")
        /\ Len(ChildList(nodes, nodes[nodes[x].parent].parent)) = 1
        /\ x \in Below(nodes, 1)

\* C16: previous_sibling is the inverse of next_sibling: whenever node m has
\* next_sibling n, n's previous_sibling refers to m, and a node that is a
\* first_child has no previous_sibling.
C16_PreviousSiblingInverse ==
    \A m \in 1..Len(nodes) :
        /\ nodes[m].next_sibling # 0 =>
               nodes[nodes[m].next_sibling].previous_sibling = m
        /\ nodes[m].first_child # 0 =>
               nodes[nodes[m].first_child].previous_sibling = 0

(***************************************************************************)
(* End tags.                                                               *)
(***************************************************************************)
\* The tags of the elements on the stack, bottom first ("" for
\* a Text node).
StackTags == [i \in 1..Len(stack_of_open_elements) |->
                 nodes[stack_of_open_elements[i]].tag]

\* The position on the stack of the element that triggered Text mode: the
\* topmost style or script element.
Trigger ==
    CHOOSE i \in 1..Len(StackTags) :
        /\ StackTags[i] \in {"style", "script"}
        /\ \A j \in (i + 1)..Len(StackTags) :
               StackTags[j] \notin {"style", "script"}

\* C17: in Text mode an EndTag style or script pops the stack only when it
\* matches the kind of the element that triggered Text mode (the stack is
\* then popped until that element is removed, the original mode is restored
\* and the token is consumed); any other end tag restores the original mode
\* without consuming the token and without aborting the parse.
C17_TextEndTag ==
    [][(DispatchIn("Text") /\ token.type = "EndTag") =>
          IF token.tag = StackTags[Trigger]
          THEN /\ stack_of_open_elements'
                      = SubSeq(stack_of_open_elements, 1, Trigger - 1)
               /\ mode' = original_insertion_mode
               /\ pc' = "loop"
          ELSE /\ stack_of_open_elements' = stack_of_open_elements
               /\ mode' = original_insertion_mode
               /\ token' = token
               /\ pc' = "loop"
      ]_vars

\* The tag names that have an ElementKind.
RecognizedTags ==
    {"html", "head", "style", "script", "body", "p", "h1", "h2", "a"}

\* The element with this tag is on the stack.
OnStack(tag) ==
    \E i \in 1..Len(stack_of_open_elements) :
        IsElement(nodes[stack_of_open_elements[i]], tag)

\* C18: in InHead, a StartTag body or a StartTag of any recognized
\* ElementKind other than style/script closes head and re-dispatches: the
\* step does not abort, the stack afterwards is exactly [html], the mode is
\* AfterHead and the same token is the next one dispatched; and whenever the
\* mode is InHead or Text the head element is on the stack.
C18_InHeadClosesHead ==
    /\ [][(/\ DispatchIn("InHead")
           /\ token.type = "StartTag"
           /\ token.tag \in RecognizedTags \ {"style", "script"}) =>
             /\ OnStack("head")
             /\ pc' = "loop"
             /\ Len(stack_of_open_elements') = 1
             /\ stack_of_open_elements'[1] = stack_of_open_elements[1]
             /\ IsElement(nodes'[stack_of_open_elements'[1]], "html")
             /\ mode' = "AfterHead"
             /\ token' = token
             /\ nodes' = nodes
         ]_vars
    /\ [](mode \in {"InHead", "Text"} => OnStack("head"))

\* head was closed by <p> while a style element was open above it, and <p>
\* is now dispatched in AfterHead.
C18_Witness ==
    /\ pc = "loop"
    /\ mode = "AfterHead"
    /\ token.type = "StartTag"
    /\ token.tag = "p"
    /\ Len(stack_of_open_elements) = 1
    /\ t.input = <<StartTag("html", <<>>), StartTag("head", <<>>),
                   StartTag("style", <<>>)>>
    /\ nodes[Len(nodes)].text = <<"x">>

\* The position of the topmost element with this tag on the stack.
TopmostOnStack(tag) ==
    CHOOSE i \in 1..Len(stack_of_open_elements) :
        /\ IsElement(nodes[stack_of_open_elements[i]], tag)
        /\ \A j \in (i + 1)..Len(stack_of_open_elements) :
               ~IsElement(nodes[stack_of_open_elements[j]], tag)

\* C19: in InBody, EndTag body always consumes the token and sets the mode
\* to AfterBody and never aborts: if no body element is on the stack the
\* stack and the tree are unchanged; otherwise the stack afterwards is
\* exactly the entries that were below the body element.
C19_EndBody ==
    [][(DispatchIn("InBody") /\ token = [type |-> "EndTag", tag |-> "body"])
          =>
          /\ pc' = "loop"
          /\ mode' = "AfterBody"
          /\ t' # t
          /\ nodes' = nodes
          /\ stack_of_open_elements' =
                 IF OnStack("body")
                 THEN SubSeq(stack_of_open_elements, 1,
                             TopmostOnStack("body") - 1)
                 ELSE stack_of_open_elements
      ]_vars

\* <body><p></body>: body is closed while p is open above it.
C19_Witness ==
    /\ pc = "loop"
    /\ mode = "AfterBody"
    /\ t.input = <<StartTag("body", <<>>), StartTag("p", <<>>)>>
    /\ t.left = MaxTokens - 1
    /\ Len(stack_of_open_elements) = 1
    /\ Len(nodes) = 5

\* The tag of the kind that the step passes to pop_until, "" when the step
\* does not call pop_until.
PopUntilTag ==
    IF /\ DispatchIn("InHead")
       /\ \/ token.type = "StartTag"
             /\ token.tag \in RecognizedTags \ {"style", "script"}
          \/ token = [type |-> "EndTag", tag |-> "head"]
    THEN "head"
    ELSE IF /\ DispatchIn("InBody")
            /\ token.type = "EndTag"
            /\ token.tag \in {"body", "p", "h1", "h2", "a"}
    THEN token.tag
    ELSE IF /\ DispatchIn("Text")
            /\ token.type = "EndTag"
            /\ token.tag \in {"style", "script"}
    THEN token.tag
    ELSE ""

\* C20: pop_until(kind), called when an element of that kind is on the
\* stack, removes exactly the entries from the top of the stack down to and
\* including the topmost element of that kind: the stack afterwards is the
\* prefix strictly below that element, and no tree link is changed.
C20_PopUntilTopmost ==
    [][(PopUntilTag # "" /\ OnStack(PopUntilTag)) =>
          /\ pc' = "loop"
          /\ stack_of_open_elements' =
                 SubSeq(stack_of_open_elements, 1,
                        TopmostOnStack(PopUntilTag) - 1)
          /\ nodes' = nodes
      ]_vars

\* <body><p><p></p>: the inner p is closed, the outer p stays open.
C20_Witness ==
    /\ pc = "loop"
    /\ mode = "InBody"
    /\ t.input = <<StartTag("body", <<>>), StartTag("p", <<>>)>>
    /\ t.left = MaxTokens - 2
    /\ Len(nodes) = 6
    /\ Len(stack_of_open_elements) = 3
    /\ IsElement(nodes[6], "p")
    /\ nodes[6].parent = 5
    /\ stack_of_open_elements[3] = 5

(***************************************************************************)
(* Borrows, the stack as a path, the leaves, the modes.                    *)
(***************************************************************************)
\* The nodes an insertion borrows while it holds `cur` mutably: the children
\* of cur that the walk of the sibling chain visits, first child included.
BorrowedUnder(cur) ==
    {ChildList(nodes, cur)[i] : i \in 1..Len(ChildList(nodes, cur))}

\* C21: no node is exclusively borrowed while another borrow of the same node
\* is requested: for every reachable tree and stack, every node borrowed
\* while the current node (the top of the stack, or the Document) is held
\* mutably is a different node from the current node, the new node included,
\* and no step that creates a node aborts.
C21_NoBorrowConflict ==
    /\ [](/\ TopOrRoot \notin BorrowedUnder(TopOrRoot)
          /\ NewNodeId # TopOrRoot
          /\ NewNodeId \notin BorrowedUnder(TopOrRoot))
    /\ [][Allocated => pc' # "panicked"]_vars

\* insert_element has walked a chain of two siblings while it held their
\* parent: an element has three element children.
C21_Witness ==
    /\ pc = "loop"
    /\ \E n \in 1..Len(nodes) :
           /\ Len(ChildList(nodes, n)) = 3
           /\ \A i \in 1..3 : nodes[ChildList(nodes, n)[i]].kind = "Element"

\* C22: the open-element stack is a root-to-node path of the tree: the bottom
\* entry's parent is the Document, each other entry's parent is the entry
\* immediately below it, and every entry is still linked in its parent's
\* child chain.
C22_StackIsPath ==
    \A i \in 1..Len(stack_of_open_elements) :
        LET n == stack_of_open_elements[i]
            below == IF i = 1 THEN 1 ELSE stack_of_open_elements[i - 1]
        IN  /\ nodes[n].parent = below
            /\ \E j \in 1..Len(ChildList(nodes, below)) :
                   ChildList(nodes, below)[j] = n

\* <body><p><a foo=bar>x: html, body, p, a and a Text node are open, the
\* path is five entries long.
C22_Witness ==
    /\ pc = "loop"
    /\ Len(stack_of_open_elements) = 5
    /\ nodes[stack_of_open_elements[5]].kind = "Text"
    /\ IsElement(nodes[stack_of_open_elements[4]], "a")

\* C23: Text nodes are leaves: no node of kind Text has a first_child.
C23_TextNodesAreLeaves ==
    \A n \in 1..Len(nodes) :
        nodes[n].kind = "Text" => nodes[n].first_child = 0

\* The step is a dispatch of a Char token that is no space and no newline,
\* before the body is open.
CharBeforeBody ==
    /\ pc = "loop"
    /\ mode \in {"BeforeHead", "InHead", "AfterHead"}
    /\ token.type = "Char"
    /\ token.c \notin {" ", "\n"}

\* After the step the character of the token is the last one of a Text node
\* that lies below a body element.
CharStoredUnderBody ==
    \E n \in 1..Len(nodes') :
        /\ nodes'[n].kind = "Text"
        /\ nodes'[n].text # <<>>
        /\ nodes'[n].text[Len(nodes'[n].text)] = token.c
        /\ nodes' # nodes
        /\ \E b \in 1..Len(nodes') :
               IsElement(nodes'[b], "body") /\ n \in Below(nodes', b)

\* C24: no non-whitespace character is lost before the body is closed: a
\* non-whitespace Char token dispatched while the mode is BeforeHead, InHead
\* or AfterHead is either kept as the current token for the next mode (which
\* synthesizes the missing head or body) or stored in a Text node under
\* body; the parse does not consume it otherwise.
C24_NoCharLost ==
    [][CharBeforeBody =>
          \/ token' = token /\ t' = t /\ pc' = "loop" /\ mode' # mode
          \/ CharStoredUnderBody
      ]_vars

\* The number of elements with this tag in the tree.
Count(ns, tag) == Cardinality({n \in 1..Len(ns) : IsElement(ns[n], tag)})

\* C25: the tree contains at most one html element, at most one head element
\* and at most one body element in every reachable state: html, head and
\* body are inserted only in BeforeHtml, BeforeHead and AfterHead.
C25_OneHtmlHeadBody ==
    /\ [](/\ Count(nodes, "html") <= 1
          /\ Count(nodes, "head") <= 1
          /\ Count(nodes, "body") <= 1)
    /\ [][(Allocated /\ nodes'[NewNodeId].kind = "Element") =>
             /\ nodes'[NewNodeId].tag = "html" => mode = "BeforeHtml"
             /\ nodes'[NewNodeId].tag = "head" => mode = "BeforeHead"
             /\ nodes'[NewNodeId].tag = "body" => mode = "AfterHead"
         ]_vars

\* <body></body><p>: a start tag arrives after the body was closed; it is
\* inserted under html and no second body is made.
C25_Witness ==
    /\ pc = "loop"
    /\ mode = "InBody"
    /\ t.input = <<StartTag("body", <<>>), EndTag("body")>>
    /\ Len(nodes) = 5
    /\ IsElement(nodes[5], "p")
    /\ nodes[5].parent = 2
    /\ Count(nodes, "body") = 1

\* The modes that may follow a mode in one step of the parse.
ModesAfter(m) ==
    CASE m = "Initial" -> {"Initial", "BeforeHtml"}
      [] m = "BeforeHtml" -> {"BeforeHtml", "BeforeHead"}
      [] m = "BeforeHead" -> {"BeforeHead", "InHead"}
      [] m = "InHead" -> {"InHead", "Text", "AfterHead"}
      [] m = "Text" -> {"Text", "InHead"}
      [] m = "AfterHead" -> {"AfterHead", "InBody"}
      [] OTHER -> {"InBody", "AfterBody", "AfterAfterBody"}

\* C26: insertion modes only move forward: Initial, BeforeHtml, BeforeHead,
\* then InHead alternating with Text, then AfterHead, then InBody, AfterBody
\* and AfterAfterBody; once InBody has been reached the mode is only ever one
\* of these three, and whenever the mode is Text the remembered original
\* mode is InHead.
C26_ModesMoveForward ==
    /\ mode = "Initial"
    /\ [][mode' \in ModesAfter(mode)]_vars
    /\ [](mode = "Text" => original_insertion_mode = "InHead")

\* <html><head></head><body></body></html><p>: the start tag after the end
\* of the document brings the mode from AfterAfterBody back to InBody.
C26_Witness ==
    /\ pc = "loop"
    /\ mode = "InBody"
    /\ t.input = MinimalDocument
    /\ Len(nodes) = 5
    /\ IsElement(nodes[5], "p")

====
